---- MODULE Spec2Model ----
(***************************************************************************)
(* Markov progression simulator of backend/core/progression/models.py:     *)
(* the base transition matrix, its risk and treatment adjustment, the      *)
(* Monte Carlo rollout and the module-level entry points.                  *)
(*                                                                         *)
(* Probabilities are Python floats in the source.  Here a probability p is *)
(* the integer round(p * SCALE): fixed-point arithmetic with round to      *)
(* nearest, one rounding per arithmetic operation as in the source.        *)
(***************************************************************************)
EXTENDS Integers, Sequences, FiniteSets, TLC

(***************************************************************************)
(* Fixed-point arithmetic                                                  *)
(***************************************************************************)
K == 10 * 100
SCALE == K * K
ONE == SCALE

Abs(x) == IF x < 0 THEN 0 - x ELSE x
Max(a, b) == IF a >= b THEN a ELSE b
Min(a, b) == IF a <= b THEN a ELSE b

\* a * b on floats: the exact product, rounded to the nearest unit.  The
\* product is formed from the high and low halves of the operands so that no
\* intermediate value leaves the 32-bit range.
FMul(a, b) ==
    LET ah == a \div K
        al == a % K
        bh == b \div K
        bl == b % K
    IN  ah * bh + ((ah * bl + al * bh) + ((al * bl + (SCALE \div 2)) \div K)) \div K

\* a / b on floats (b > 0): long division in base 100, rounded to nearest.
FDiv(a, b) ==
    LET q0 == a \div b
        r0 == a % b
        q1 == (r0 * 100) \div b
        r1 == (r0 * 100) % b
        q2 == (r1 * 100) \div b
        r2 == (r1 * 100) % b
        q3 == (r2 * 100) \div b
        r3 == (r2 * 100) % b
    IN  ((q0 * 100 + q1) * 100 + q2) * 100 + q3 + (IF 2 * r3 >= b THEN 1 ELSE 0)

\* math.log(x) for x > 0: ln x = 2 * atanh((x-1)/(x+1)), the series summed
\* to the term whose size is below one unit for the arguments in use.
RECURSIVE AtanhTerms(_, _, _)
AtanhTerms(zpow, z2, n) ==
    IF zpow = 0 \/ n > 25 THEN 0
    ELSE (2 * zpow + n) \div (2 * n) + AtanhTerms(FMul(zpow, z2), z2, n + 2)

MathLog(x) ==
    LET z == FDiv(x - ONE, x + ONE)
    IN  2 * AtanhTerms(z, FMul(z, z), 1)

\* math.exp(y), by its power series
RECURSIVE ExpTerms(_, _, _)
ExpTerms(term, y, k) ==
    IF term = 0 \/ k > 30 THEN 0
    ELSE term + ExpTerms(FMul(term, y) \div k, y, k + 1)

MathExp(y) == ExpTerms(ONE, y, 1)

\* x ** n for an int n >= 0
RECURSIVE FPow(_, _)
FPow(x, n) == IF n = 0 THEN ONE ELSE FMul(x, FPow(x, n - 1))

(***************************************************************************)
(* States and matrices                                                     *)
(***************************************************************************)
states == <<"NED", "Local Recurrence", "Regional Recurrence", "Distant Metastasis", "Death">>
StateSet == {states[i] : i \in 1..Len(states)}
Idx(s) == CHOOSE i \in 1..Len(states) : states[i] = s

RECURSIVE SumSeq(_)
SumSeq(q) == IF q = <<>> THEN 0 ELSE Head(q) + SumSeq(Tail(q))

\* sum(row.values()), in the dict's key order
RowSum(row) == SumSeq([i \in 1..Len(states) |-> row[states[i]]])

\* sum(row[s] for s in row if s != skip)
SumExcept(row, skip) == RowSum([row EXCEPT ![skip] = 0])

MkRow(a, b, c, d, e) ==
    [s \in StateSet |->
        CASE s = "NED" -> a
          [] s = "Local Recurrence" -> b
          [] s = "Regional Recurrence" -> c
          [] s = "Distant Metastasis" -> d
          [] OTHER -> e]

\* the literal with a Death row that leaks one percent back to NED
leaky_transition_probs ==
    [s \in StateSet |->
        CASE s = "NED" -> MkRow(997000, 1500, 800, 500, 200)
          [] s = "Local Recurrence" -> MkRow(50000, 930000, 10000, 5000, 5000)
          [] s = "Regional Recurrence" -> MkRow(20000, 30000, 920000, 20000, 10000)
          [] s = "Distant Metastasis" -> MkRow(1000, 2000, 7000, 980000, 10000)
          [] OTHER -> MkRow(10000, 0, 0, 0, 990000)]

\* the literal of _simulate_markov
base_transition_probs ==
    [s \in StateSet |->
        CASE s = "NED" -> MkRow(997000, 1500, 800, 500, 200)
          [] s = "Local Recurrence" -> MkRow(50000, 930000, 10000, 5000, 5000)
          [] s = "Regional Recurrence" -> MkRow(20000, 30000, 920000, 20000, 10000)
          [] s = "Distant Metastasis" -> MkRow(1000, 2000, 7000, 980000, 10000)
          [] OTHER -> MkRow(0, 0, 0, 0, ONE)]

(***************************************************************************)
(* The heap of row dicts.  A matrix (a dict of dicts) is a map from state  *)
(* to the address of its row dict; rows are mutated in place through it.   *)
(***************************************************************************)
Deref(h, ref) == [s \in StateSet |-> h[ref[s]]]
Addresses(ref) == {ref[s] : s \in StateSet}

\* a dict literal / a fresh dict of fresh rows holding matrix value m
AllocHeap(h, m) == h \o [i \in 1..Len(states) |-> m[states[i]]]
AllocRef(h) == [s \in StateSet |-> Len(h) + Idx(s)]

\* rows copied by reference: the outer dict is new, the row dicts are shared
AliasProbs(h, base_probs) == [heap |-> h, ref |-> base_probs]

\* {state: probs.copy() for state, probs in base_probs.items()}
CopyProbs(h, base_probs) ==
    [heap |-> AllocHeap(h, Deref(h, base_probs)), ref |-> AllocRef(h)]

\* the rows of matrix `ref` overwritten in place, one state after another in
\* the dict's key order, by rows[state]; each loop body reads and writes the
\* row of its own state only
RECURSIVE UpdateRows(_, _, _, _)
UpdateRows(h, ref, rows, i) ==
    IF i > Len(states) THEN h
    ELSE LET s == states[i]
         IN  UpdateRows([h EXCEPT ![ref[s]] = rows[s]], ref, rows, i + 1)

(***************************************************************************)
(* Dict access                                                             *)
(***************************************************************************)
\* d.get(key, default)
Get(d, key, default) == IF key \in DOMAIN d THEN d[key] ELSE default

(***************************************************************************)
(* _adjust_transition_probabilities                                        *)
(***************************************************************************)
SubtypeFactor(molecular_subtype) ==
    CASE molecular_subtype = "Triple Negative" -> 1200000
      [] molecular_subtype = "HER2 Enriched" -> 1150000
      [] molecular_subtype = "Luminal B HER2+" -> 1100000
      [] molecular_subtype = "Luminal B HER2-" -> 1050000
      [] OTHER -> ONE

GradeFactor(grade) ==
    CASE grade = 3 -> 1150000
      [] grade = 1 -> 900000
      [] OTHER -> ONE

NodesFactor(nodes_positive) ==
    CASE nodes_positive > 3 -> 1200000
      [] nodes_positive > 0 -> 1100000
      [] OTHER -> ONE

risk_modifier(molecular_subtype, grade, nodes_positive) ==
    FMul(FMul(FMul(ONE, SubtypeFactor(molecular_subtype)), GradeFactor(grade)),
         NodesFactor(nodes_positive))

adjustment_factor(rm) == MathLog(rm + 300000) \div 2

\* one floor for every state
min_stay_prob_uniform(from_state) == 900000

min_stay_prob(from_state) ==
    CASE from_state = "NED" -> 995000
      [] from_state = "Local Recurrence" -> 930000
      [] from_state = "Regional Recurrence" -> 920000
      [] from_state = "Distant Metastasis" -> 970000
      [] OTHER -> 900000

\* every other state taken as a worse state
other_states(from_state) ==
    CASE from_state = "NED" ->
            <<"Local Recurrence", "Regional Recurrence", "Distant Metastasis", "Death">>
      [] from_state = "Local Recurrence" ->
            <<"NED", "Regional Recurrence", "Distant Metastasis", "Death">>
      [] from_state = "Regional Recurrence" ->
            <<"NED", "Local Recurrence", "Distant Metastasis", "Death">>
      [] from_state = "Distant Metastasis" ->
            <<"NED", "Local Recurrence", "Regional Recurrence", "Death">>
      [] OTHER -> <<>>

worse_states(from_state) ==
    CASE from_state = "NED" ->
            <<"Local Recurrence", "Regional Recurrence", "Distant Metastasis", "Death">>
      [] from_state = "Local Recurrence" ->
            <<"Regional Recurrence", "Distant Metastasis", "Death">>
      [] from_state = "Regional Recurrence" -> <<"Distant Metastasis", "Death">>
      [] from_state = "Distant Metastasis" -> <<"Death">>
      [] OTHER -> <<>>

InSeq(x, q) == \E i \in 1..Len(q) : q[i] = x

\* the reduction added instead of subtracted
raised_stay_prob(stay_prob, from_state, rm) ==
    Max(min_stay_prob(from_state),
        stay_prob + FMul(FMul(stay_prob, 20000), adjustment_factor(rm)))

\* the reduction applied without the floor
unfloored_stay_prob(stay_prob, from_state, rm) ==
    stay_prob - FMul(FMul(stay_prob, 20000), adjustment_factor(rm))

new_stay_prob(stay_prob, from_state, rm) ==
    Max(min_stay_prob(from_state),
        stay_prob - FMul(FMul(stay_prob, 20000), adjustment_factor(rm)))

\* one pass of the loop over the non-Death rows
RiskAdjustRow(from_state, transitions, rm) ==
    IF from_state = "Death" THEN transitions
    ELSE
    LET stay_prob == transitions[from_state]
        new_stay == new_stay_prob(stay_prob, from_state, rm)
        freed_prob == stay_prob - new_stay
        worse == worse_states(from_state)
        worse_sum == SumSeq([i \in 1..Len(worse) |-> transitions[worse[i]]])
    IN  [t \in StateSet |->
            IF t = from_state THEN new_stay
            ELSE IF InSeq(t, worse) /\ worse_sum > 0
                 THEN transitions[t] + FMul(freed_prob, FDiv(transitions[t], worse_sum))
            ELSE IF InSeq(t, worse) /\ freed_prob > 0 /\ Len(worse) > 0
                 THEN transitions[t] + FDiv(freed_prob, Len(worse) * ONE)
            ELSE transitions[t]]

\* abs(total - 1.0) > 1e-10 "allow for small floating-point errors": the
\* tolerance separates rounding noise from a real change of the row sum.  The
\* source's arithmetic rounds at about 1e-16 and tolerates 1e-10; this
\* arithmetic rounds at one unit and tolerates DRIFT_TOL units.
DRIFT_TOL == 5

\* the loop is skipped: rows are returned as edited
SkipNormalizeRow(state, transitions) == transitions

\* the renormalisation loop that ends both adjustment functions
NormalizeRow(state, transitions) ==
    LET total == RowSum(transitions)
    IN  IF Abs(total - ONE) > DRIFT_TOL
        THEN [next_state \in StateSet |-> FDiv(transitions[next_state], total)]
        ELSE transitions

adjust_transition_probabilities(h, base_probs, molecular_subtype, grade, nodes_positive) ==
    LET adjusted == CopyProbs(h, base_probs)
        rm == risk_modifier(molecular_subtype, grade, nodes_positive)
        edited == [from_state \in StateSet |->
                      RiskAdjustRow(from_state, adjusted.heap[adjusted.ref[from_state]], rm)]
        h1 == UpdateRows(adjusted.heap, adjusted.ref, edited, 1)
        normalized == [state \in StateSet |-> NormalizeRow(state, h1[adjusted.ref[state]])]
        h2 == UpdateRows(h1, adjusted.ref, normalized, 1)
    IN  [heap |-> h2, ref |-> adjusted.ref]

(***************************************************************************)
(* _adjust_for_treatment                                                   *)
(***************************************************************************)
\* the efficacy local: assigned, and read by no later statement
efficacy(treatment_type, molecular_subtype) ==
    CASE treatment_type = "chemotherapy" ->
            (CASE molecular_subtype = "Triple Negative" -> 800000
               [] molecular_subtype = "HER2 Enriched" -> 700000
               [] OTHER -> 600000)
      [] treatment_type = "hormone_therapy" ->
            (IF molecular_subtype \in {"Luminal A", "Luminal B"} THEN 700000 ELSE 200000)
      [] treatment_type = "targeted_therapy" ->
            (IF molecular_subtype = "HER2 Enriched" THEN 900000 ELSE 400000)
      [] treatment_type = "surgery" -> 950000
      [] treatment_type = "radiation" -> 850000
      [] OTHER -> 600000

\* the share moved the other way, from P[NED][NED] into P[NED][Local]
LocalIncrease(row, share) ==
    LET local_reduction == FMul(row["Local Recurrence"], share)
    IN  [row EXCEPT !["Local Recurrence"] = @ + local_reduction,
                    !["NED"] = @ - local_reduction]

\* the share taken out of P[NED][Local] and not added to P[NED][NED]
LocalReductionLost(row, share) ==
    LET local_reduction == FMul(row["Local Recurrence"], share)
    IN  [row EXCEPT !["Local Recurrence"] = @ - local_reduction]

\* NED row of surgery / radiation: move `share` of P[NED][Local] into P[NED][NED]
LocalReduction(row, share) ==
    LET local_reduction == FMul(row["Local Recurrence"], share)
    IN  [row EXCEPT !["Local Recurrence"] = @ - local_reduction,
                    !["NED"] = @ + local_reduction]

\* the remaining 0.3 split evenly over the other four columns
SurgeryLocalRowEvenSplit(row) ==
    LET r1 == [row EXCEPT !["NED"] = 700000]
        remaining == 300000
    IN  [s \in StateSet |-> IF s # "NED" THEN remaining \div 4 ELSE r1[s]]

\* Local Recurrence row of surgery
SurgeryLocalRow(row) ==
    LET r1 == [row EXCEPT !["NED"] = 700000]
        remaining == 300000
        total_other == SumExcept(r1, "NED")
    IN  IF total_other > 0
        THEN [s \in StateSet |->
                IF s # "NED" THEN FMul(FDiv(r1[s], total_other), remaining) ELSE r1[s]]
        ELSE r1

\* P[Local][NED] set to 0.15 whatever it was (no test of ned_increase)
RadiationLocalRowAlways(row) ==
    LET r1 == [row EXCEPT !["NED"] = 150000]
        total_other == SumExcept(r1, "NED")
    IN  IF total_other > 0
        THEN [s \in StateSet |->
                IF s # "NED" THEN FMul(r1[s], FDiv(ONE - 150000, total_other)) ELSE r1[s]]
        ELSE r1

\* Local Recurrence row of radiation
RadiationLocalRow(row) ==
    LET ned_increase == 150000 - row["NED"]
        r1 == [row EXCEPT !["NED"] = 150000]
        total_other == SumExcept(r1, "NED")
    IN  IF ned_increase > 0
        THEN [s \in StateSet |->
                IF s # "NED" THEN FMul(r1[s], FDiv(ONE - 150000, total_other)) ELSE r1[s]]
        ELSE row

\* chemotherapy, hormone_therapy, targeted_therapy: raise the stay entry by
\* min(cap, (1 - stay) * share), scale the others by (1 - stay_increase) / total_others
StayIncreaseRow(from_state, row, cap, share) ==
    LET stay_increase == Min(cap, FMul(ONE - row[from_state], share))
        r1 == [row EXCEPT ![from_state] = @ + stay_increase]
        total_others == SumExcept(r1, from_state)
    IN  IF total_others > 0
        THEN [s \in StateSet |->
                IF s # from_state
                THEN FMul(r1[s], FDiv(ONE - stay_increase, total_others))
                ELSE r1[s]]
        ELSE r1

\* the last branch taken by every other treatment type (else for elif)
TreatmentAdjustRowElse(from_state, row, treatment_type) ==
    IF from_state = "Death" THEN row
    ELSE CASE treatment_type = "surgery" ->
                (CASE from_state = "NED" -> LocalReduction(row, 900000)
                   [] from_state = "Local Recurrence" -> SurgeryLocalRow(row)
                   [] OTHER -> row)
           [] treatment_type = "radiation" ->
                (CASE from_state = "NED" -> LocalReduction(row, 850000)
                   [] from_state = "Local Recurrence" -> RadiationLocalRow(row)
                   [] OTHER -> row)
           [] treatment_type = "chemotherapy" ->
                StayIncreaseRow(from_state, row, 50000, 300000)
           [] OTHER -> StayIncreaseRow(from_state, row, 30000, 200000)

\* one pass of the loop over the non-Death rows
TreatmentAdjustRow(from_state, row, treatment_type) ==
    IF from_state = "Death" THEN row
    ELSE CASE treatment_type = "surgery" ->
                (CASE from_state = "NED" -> LocalReduction(row, 900000)
                   [] from_state = "Local Recurrence" -> SurgeryLocalRow(row)
                   [] OTHER -> row)
           [] treatment_type = "radiation" ->
                (CASE from_state = "NED" -> LocalReduction(row, 850000)
                   [] from_state = "Local Recurrence" -> RadiationLocalRow(row)
                   [] OTHER -> row)
           [] treatment_type = "chemotherapy" ->
                StayIncreaseRow(from_state, row, 50000, 300000)
           [] treatment_type \in {"hormone_therapy", "targeted_therapy"} ->
                StayIncreaseRow(from_state, row, 30000, 200000)
           [] OTHER -> row

\* the transitions out of a state damped by the efficacy of the treatment
adjust_for_treatment_by_efficacy(h, base_probs, treatment_plan, molecular_subtype) ==
    LET adjusted == CopyProbs(h, base_probs)
        treatment_type == Get(treatment_plan, "treatment_type", "unknown")
        damping == ONE - efficacy(treatment_type, molecular_subtype)
        Damped(from_state, row) ==
            IF from_state = "Death" THEN row
            ELSE [t \in StateSet |-> IF t = from_state THEN row[t] ELSE FMul(row[t], damping)]
        edited == [from_state \in StateSet |->
                      Damped(from_state,
                             TreatmentAdjustRow(from_state,
                                                adjusted.heap[adjusted.ref[from_state]],
                                                treatment_type))]
        h1 == UpdateRows(adjusted.heap, adjusted.ref, edited, 1)
        normalized == [state \in StateSet |-> NormalizeRow(state, h1[adjusted.ref[state]])]
        h2 == UpdateRows(h1, adjusted.ref, normalized, 1)
    IN  [heap |-> h2, ref |-> adjusted.ref]

adjust_for_treatment(h, base_probs, treatment_plan, molecular_subtype) ==
    LET adjusted == CopyProbs(h, base_probs)
        treatment_type == Get(treatment_plan, "treatment_type", "unknown")
        edited == [from_state \in StateSet |->
                      TreatmentAdjustRow(from_state, adjusted.heap[adjusted.ref[from_state]],
                                         treatment_type)]
        h1 == UpdateRows(adjusted.heap, adjusted.ref, edited, 1)
        normalized == [state \in StateSet |-> NormalizeRow(state, h1[adjusted.ref[state]])]
        h2 == UpdateRows(h1, adjusted.ref, normalized, 1)
    IN  [heap |-> h2, ref |-> adjusted.ref]

(***************************************************************************)
(* _simulate_exponential                                                   *)
(***************************************************************************)
\* base_rate * grade_factor * subtype_factor
calculate_growth_rate(pd) ==
    LET grade == Get(pd, "grade", 2)
        grade_factor == CASE grade = 1 -> 700000 [] grade = 3 -> 1500000 [] OTHER -> ONE
        subtype == Get(pd, "molecular_subtype", "unknown")
        subtype_factor ==
            CASE subtype = "Triple Negative" -> 1600000
              [] subtype = "HER2 Enriched" -> 1400000
              [] OTHER -> ONE
    IN  FMul(FMul(30000, grade_factor), subtype_factor)

base_5yr_survival(nodes, tumor_size) ==
    CASE nodes = 0 /\ tumor_size <= 20 -> 980000
      [] nodes <= 3 /\ tumor_size <= 50 -> 900000
      [] nodes <= 9 \/ tumor_size <= 70 -> 720000
      [] OTHER -> 300000

calculate_survival_probability(pd, m) ==
    LET nodes == Get(pd, "nodes_positive", 0)
        tumor_size == Get(pd, "tumor_size", 20)
        grade == Get(pd, "grade", 2)
        er_status == Get(pd, "er_status", "positive")
        pr_status == Get(pd, "pr_status", "positive")
        her2_status == Get(pd, "her2_status", "negative")
        age == Get(pd, "age", 60)
        \* base_5yr_survival ** (1/60)
        m0 == MathExp(MathLog(base_5yr_survival(nodes, tumor_size)) \div 60)
        m1 == IF er_status = "positive" \/ pr_status = "positive"
              THEN FMul(m0, 1002000) ELSE m0
        m2 == IF her2_status = "positive" THEN FMul(m1, 1001000) ELSE m1
        m3 == CASE grade = 3 -> FMul(m2, 998000)
                [] grade = 1 -> FMul(m2, 1002000)
                [] OTHER -> m2
        monthly_survival == IF age > 70 THEN FMul(m3, 999000) ELSE m3
    IN  FPow(monthly_survival, m)

\* math.exp(x) raises OverflowError("math range error") above ln(DBL_MAX),
\* 709.782712...
EXP_MAX_ARG == 709782712
exp_overflows(x) == x > EXP_MAX_ARG

\* for month in range(months + 1): size = ... * math.exp(growth_rate * month):
\* the loop raises at the first month whose exponent is out of range
sizes_overflow(pd, m) ==
    \E mo \in {0, m} : exp_overflows(calculate_growth_rate(pd) * mo)

\* the first horizon at which the sizes loop raises
first_overflow_month(pd) == EXP_MAX_ARG \div calculate_growth_rate(pd) + 1

simulate_exponential(pd, m) ==
    LET survival_prob == calculate_survival_probability(pd, m)
    IN  [s \in StateSet |->
            CASE s = "NED" -> Max(780000, survival_prob - 80000)
              [] s = "Local Recurrence" -> Min(50000, FMul(ONE - survival_prob, 300000))
              [] s = "Regional Recurrence" -> Min(30000, FMul(ONE - survival_prob, 200000))
              [] s = "Distant Metastasis" -> Min(50000, FMul(ONE - survival_prob, 300000))
              [] OTHER -> Min(150000, ONE - survival_prob)]

(***************************************************************************)
(* Inputs                                                                  *)
(***************************************************************************)
MaxMonths == 2
MaxSims == 2
MaxYears == 2
MaxNodes == 4

\* the module-level functions pass n_simulations=100; the rollouts they start
\* run WrapperSims trials here
WrapperSims == 1
MONTHS_PER_YEAR == 12

Subtypes ==
    {"Triple Negative", "HER2 Enriched", "Luminal B HER2+", "Luminal B HER2-",
     "Luminal A", "unknown"}
Grades == {1, 2, 3}
TreatmentTypes ==
    {"surgery", "radiation", "chemotherapy", "hormone_therapy", "targeted_therapy",
     "immunotherapy"}
KnownTreatmentTypes == TreatmentTypes \ {"immunotherapy"}
SimulationTypes == {"markov", "exponential", "gompertz"}

EmptyDict == <<>>
OptField(name, values) == {EmptyDict} \cup {name :> v : v \in values}

\* treatment plans, with and without the treatment_type field
TreatmentPlans ==
    OptField("treatment_type", TreatmentTypes)
        \cup {[treatment_type |-> "surgery", regimen |-> "AC-T", duration_months |-> 6]}

\* patient records: none of the fields given (every default applies), a
\* low-risk record, the same with the fields the Markov mode does not read,
\* an adverse record; any field may be missing
RiskProfiles ==
    {EmptyDict,
     [grade |-> 1],
     [grade |-> 1, age |-> 75, tumor_size |-> 60, er_status |-> "negative",
      pr_status |-> "negative", her2_status |-> "positive"],
     [molecular_subtype |-> "Triple Negative", grade |-> 3, nodes_positive |-> MaxNodes]}

\* patient records handed to the entry points, with and without a plan
PatientRecords ==
    {a @@ d : a \in RiskProfiles, d \in OptField("treatment_plan", TreatmentPlans)}

\* the horizons of a call: the short ones, and in exponential mode, where the
\* horizon costs no sampling, also the first one out of math.exp's range
Horizons(pd, st) ==
    (0..MaxMonths) \cup (IF st = "exponential" THEN {first_overflow_month(pd)} ELSE {})

\* Optional[Dict]: <<>> is None, <<plan>> is a plan
OptionalPlans == {<<>>, <<[treatment_type |-> "surgery"]>>}

VARIABLES
    pc,                 \* position in the running call
    entry,              \* the entry point that was called
    simulation_type,    \* ProgressionSimulator.simulation_type
    patient_data,       \* the patient dict of the call
    treatment_plan,     \* the treatment_plan argument of a module-level function
    months, n_simulations,
    heap,               \* the row dicts alive in the call
    base_probs,         \* the matrix handed to the adjustment running last
    transition_probs,   \* the matrix the rollout samples from
    results,            \* per-state counts, then per-state fractions
    trial, month, current_state,
    years, year, curve, \* predict_survival_curve: horizon, loop index, result
    error,              \* the exception that ended the call, "" if none
    np_random,          \* np.random, the process-global generator: the number of
                        \* variates it has handed out since it was seeded
    calls,              \* concurrent calls: the locals of each running call
    last_call           \* history: the last adjustment call and its argument

vars ==
    <<pc, entry, simulation_type, patient_data, treatment_plan, months, n_simulations,
      heap, base_probs, transition_probs, results, trial, month, current_state,
      years, year, curve, error, np_random, calls, last_call>>

NoCall ==
    [fn |-> "none", arg |-> <<>>, treatment_type |-> "", molecular_subtype |-> "",
     grade |-> 0, nodes_positive |-> 0, efficacy |-> 0, chain |-> <<>>,
     origin |-> <<>>]

Idle ==
    /\ pc = "idle"
    /\ entry = ""
    /\ simulation_type = ""
    /\ patient_data = EmptyDict
    /\ treatment_plan = <<>>
    /\ months = 0
    /\ n_simulations = 0
    /\ heap = <<>>
    /\ base_probs = <<>>
    /\ transition_probs = <<>>
    /\ results = <<>>
    /\ trial = 0
    /\ month = 0
    /\ current_state = ""
    /\ years = 0
    /\ year = 0
    /\ curve = <<>>
    /\ error = ""
    /\ np_random = 0
    /\ calls = <<>>
    /\ last_call = NoCall

Init == Idle

call_locals == <<heap, base_probs, transition_probs, results, trial, month, current_state, last_call>>
curve_vars == <<years, year, curve>>
shared_vars == <<np_random, calls>>
call_args == <<entry, simulation_type, patient_data, treatment_plan, months, n_simulations>>

(***************************************************************************)
(* Entry points                                                            *)
(***************************************************************************)
\* ProgressionSimulator(simulation_type).simulate_progression(patient_data, months, n)
CallSimulateProgression(pd, m, n, st) ==
    /\ pc = "idle"
    /\ pc' = "simulate_progression"
    /\ entry' = "simulate_progression"
    /\ simulation_type' = st
    /\ patient_data' = pd
    /\ treatment_plan' = <<>>
    /\ months' = m
    /\ n_simulations' = n
    /\ UNCHANGED shared_vars
    /\ UNCHANGED <<call_locals, curve_vars, error>>

\* project_disease_progression(patient_features, treatment_plan, months, model_type)
CallProjectDiseaseProgression(pd, plan, m, model_type) ==
    /\ pc = "idle"
    /\ pc' = "simulate_progression"
    /\ entry' = "project_disease_progression"
    /\ simulation_type' = model_type
    /\ patient_data' = pd
    /\ treatment_plan' = plan
    /\ months' = m
    /\ n_simulations' = WrapperSims
    /\ UNCHANGED shared_vars
    /\ UNCHANGED <<call_locals, curve_vars, error>>

\* predict_survival_curve(patient_features, years, treatment_plan): first pass
\* of the loop over range(years + 1)
CallPredictSurvivalCurve(pd, yrs, plan) ==
    /\ pc = "idle"
    /\ pc' = "simulate_progression"
    /\ entry' = "predict_survival_curve"
    /\ simulation_type' = "markov"
    /\ patient_data' = pd
    /\ treatment_plan' = plan
    /\ years' = yrs
    /\ year' = 0
    /\ curve' = <<>>
    /\ months' = 0 * MONTHS_PER_YEAR
    /\ n_simulations' = WrapperSims
    /\ UNCHANGED shared_vars
    /\ UNCHANGED <<call_locals, error>>

(***************************************************************************)
(* simulate_progression and _simulate_markov                               *)
(***************************************************************************)
\* the markov branch, down to the base matrix literal
SimulateMarkov ==
    /\ pc = "simulate_progression"
    /\ simulation_type = "markov"
    /\ heap' = AllocHeap(<<>>, base_transition_probs)
    /\ base_probs' = AllocRef(<<>>)
    /\ transition_probs' = <<>>
    /\ last_call' = [NoCall EXCEPT !.origin = base_transition_probs]
    /\ pc' = "adjust_risk"
    /\ UNCHANGED shared_vars
    /\ UNCHANGED <<call_args, results, trial, month, current_state, curve_vars, error>>

\* the exponential branch: return self._simulate_exponential(patient_data, months)
SimulateExponential ==
    /\ pc = "simulate_progression"
    /\ simulation_type = "exponential"
    /\ IF sizes_overflow(patient_data, months)
       THEN /\ error' = "OverflowError"
            /\ pc' = "raised"
            /\ UNCHANGED results
       ELSE /\ results' = simulate_exponential(patient_data, months)
            /\ pc' = "returned"
            /\ UNCHANGED error
    /\ UNCHANGED shared_vars
    /\ UNCHANGED <<call_args, heap, base_probs, transition_probs, trial, month,
                   current_state, last_call, curve_vars>>

\* an unknown type answered with an all-zero mapping instead of an exception
SimulateUnknownTypeSilently ==
    /\ pc = "simulate_progression"
    /\ simulation_type \notin {"markov", "exponential"}
    /\ results' = [s \in StateSet |-> 0]
    /\ pc' = "returned"
    /\ UNCHANGED shared_vars
    /\ UNCHANGED <<call_args, heap, base_probs, transition_probs, trial, month,
                   current_state, last_call, curve_vars, error>>

\* raise ValueError(f"Unknown simulation type: ...")
SimulateUnknownType ==
    /\ pc = "simulate_progression"
    /\ simulation_type \notin {"markov", "exponential"}
    /\ error' = "ValueError"
    /\ pc' = "raised"
    /\ UNCHANGED shared_vars
    /\ UNCHANGED <<call_args, call_locals, curve_vars>>

ZeroCounts == [s \in StateSet |-> 0]

\* patients over 70 treated as grade 3
AdjustRiskByAge ==
    /\ pc = "adjust_risk"
    /\ LET molecular_subtype == Get(patient_data, "molecular_subtype", "unknown")
           grade == IF Get(patient_data, "age", 60) > 70 THEN 3
                    ELSE Get(patient_data, "grade", 2)
           nodes_positive == Get(patient_data, "nodes_positive", 0)
           r == adjust_transition_probabilities(heap, base_probs, molecular_subtype,
                                                grade, nodes_positive)
       IN  /\ heap' = r.heap
           /\ transition_probs' = r.ref
           /\ last_call' =
                [fn |-> "risk", arg |-> Deref(heap, base_probs), treatment_type |-> "",
                 molecular_subtype |-> molecular_subtype, grade |-> grade,
                 nodes_positive |-> nodes_positive, efficacy |-> 0,
                 chain |-> Append(last_call.chain, "risk"), origin |-> last_call.origin]
    /\ IF "treatment_plan" \in DOMAIN patient_data
       THEN /\ pc' = "adjust_treatment"
            /\ UNCHANGED <<results, trial>>
       ELSE /\ pc' = "rollout"
            /\ results' = ZeroCounts
            /\ trial' = 0
    /\ UNCHANGED shared_vars
    /\ UNCHANGED <<call_args, base_probs, month, current_state, curve_vars, error>>


\* transition_probs = self._adjust_transition_probabilities(base_transition_probs, ...)
AdjustRisk ==
    /\ pc = "adjust_risk"
    /\ LET molecular_subtype == Get(patient_data, "molecular_subtype", "unknown")
           grade == Get(patient_data, "grade", 2)
           nodes_positive == Get(patient_data, "nodes_positive", 0)
           r == adjust_transition_probabilities(heap, base_probs, molecular_subtype,
                                                grade, nodes_positive)
       IN  /\ heap' = r.heap
           /\ transition_probs' = r.ref
           /\ last_call' =
                [fn |-> "risk", arg |-> Deref(heap, base_probs), treatment_type |-> "",
                 molecular_subtype |-> molecular_subtype, grade |-> grade,
                 nodes_positive |-> nodes_positive, efficacy |-> 0,
                 chain |-> Append(last_call.chain, "risk"), origin |-> last_call.origin]
    /\ IF "treatment_plan" \in DOMAIN patient_data
       THEN /\ pc' = "adjust_treatment"
            /\ UNCHANGED <<results, trial>>
       ELSE /\ pc' = "rollout"
            /\ results' = ZeroCounts
            /\ trial' = 0
    /\ UNCHANGED shared_vars
    /\ UNCHANGED <<call_args, base_probs, month, current_state, curve_vars, error>>

\* transition_probs = self._adjust_for_treatment(transition_probs, plan, subtype)
AdjustTreatment ==
    /\ pc = "adjust_treatment"
    /\ LET plan == patient_data["treatment_plan"]
           molecular_subtype == Get(patient_data, "molecular_subtype", "unknown")
           treatment_type == Get(plan, "treatment_type", "unknown")
           r == adjust_for_treatment(heap, transition_probs, plan, molecular_subtype)
       IN  /\ heap' = r.heap
           /\ base_probs' = transition_probs
           /\ transition_probs' = r.ref
           /\ last_call' =
                [fn |-> "treatment", arg |-> Deref(heap, transition_probs),
                 treatment_type |-> treatment_type,
                 molecular_subtype |-> molecular_subtype, grade |-> 0,
                 nodes_positive |-> 0,
                 efficacy |-> efficacy(treatment_type, molecular_subtype),
                 chain |-> Append(last_call.chain, "treatment"),
                 origin |-> last_call.origin]
    /\ pc' = "rollout"
    /\ results' = ZeroCounts
    /\ trial' = 0
    /\ UNCHANGED shared_vars
    /\ UNCHANGED <<call_args, month, current_state, curve_vars, error>>

\* one trial too many: range(n_simulations + 1)
StartTrialOneMore ==
    /\ pc = "rollout"
    /\ trial < n_simulations + 1
    /\ current_state' = "NED"
    /\ month' = 0
    /\ pc' = "month"
    /\ UNCHANGED shared_vars
    /\ UNCHANGED <<call_args, heap, base_probs, transition_probs, results, trial,
                   last_call, curve_vars, error>>

\* for _ in range(n_simulations): current_state = "NED"
StartTrial ==
    /\ pc = "rollout"
    /\ trial < n_simulations
    /\ current_state' = "NED"
    /\ month' = 0
    /\ pc' = "month"
    /\ UNCHANGED shared_vars
    /\ UNCHANGED <<call_args, heap, base_probs, transition_probs, results, trial,
                   last_call, curve_vars, error>>

\* the draw may also return a state of probability 0
RandomChoiceAny(current_probs) == StateSet

\* np.random.choice(keys, p=values): the states it can return
RandomChoice(current_probs) == {s \in StateSet : current_probs[s] > 0}

\* every state the trial passes through is counted
SampleMonthCounting ==
    /\ pc = "month"
    /\ month < months
    /\ \E next_state \in RandomChoice(heap[transition_probs[current_state]]) :
            /\ current_state' = next_state
            /\ results' = [results EXCEPT ![next_state] = @ + 1]
    /\ month' = month + 1
    /\ np_random' = np_random + 1
    /\ UNCHANGED <<pc, call_args, heap, base_probs, transition_probs, trial,
                   last_call, curve_vars, error, calls>>

\* from the second month on, a trial that has left NED stays where it is
SampleMonthSticky ==
    /\ pc = "month"
    /\ month < months
    /\ \E next_state \in RandomChoice(heap[transition_probs[current_state]]) :
            /\ (month >= 1 /\ current_state # "NED") => next_state = current_state
            /\ current_state' = next_state
    /\ month' = month + 1
    /\ np_random' = np_random + 1
    /\ UNCHANGED <<pc, call_args, heap, base_probs, transition_probs, results, trial,
                   last_call, curve_vars, error, calls>>

\* for month in range(months): current_state = next_state
SampleMonth ==
    /\ pc = "month"
    /\ month < months
    /\ \E next_state \in RandomChoice(heap[transition_probs[current_state]]) :
            current_state' = next_state
    /\ month' = month + 1
    /\ np_random' = np_random + 1
    /\ UNCHANGED calls
    /\ UNCHANGED <<pc, call_args, heap, base_probs, transition_probs, results, trial,
                   last_call, curve_vars, error>>

\* results[current_state] += 1
RecordFinalState ==
    /\ pc = "month"
    /\ month = months
    /\ results' = [results EXCEPT ![current_state] = @ + 1]
    /\ trial' = trial + 1
    /\ pc' = "rollout"
    /\ UNCHANGED shared_vars
    /\ UNCHANGED <<call_args, heap, base_probs, transition_probs, month, current_state,
                   last_call, curve_vars, error>>

\* results[state] = results[state] / n_simulations; return results
ConvertToProbabilities ==
    /\ pc = "rollout"
    /\ trial >= n_simulations
    /\ IF n_simulations = 0
       THEN /\ error' = "ZeroDivisionError"
            /\ pc' = "raised"
            /\ UNCHANGED results
       ELSE /\ results' = [s \in StateSet |-> FDiv(results[s] * ONE, n_simulations * ONE)]
            /\ pc' = "returned"
            /\ UNCHANGED error
    /\ UNCHANGED shared_vars
    /\ UNCHANGED <<call_args, heap, base_probs, transition_probs, trial, month,
                   current_state, last_call, curve_vars>>

(***************************************************************************)
(* Return to the entry point                                               *)
(***************************************************************************)
\* simulate_progression and project_disease_progression return the mapping
ReturnResults ==
    /\ pc = "returned"
    /\ entry \in {"simulate_progression", "project_disease_progression"}
    /\ pc' = "done"
    /\ UNCHANGED shared_vars
    /\ UNCHANGED <<call_args, call_locals, curve_vars, error>>

\* the Death share stored as the survival probability
NextYearDeathShare ==
    /\ pc = "returned"
    /\ entry = "predict_survival_curve"
    /\ curve' = Append(curve, Get(results, "Death", 0))
    /\ year' = year + 1
    /\ IF year + 1 <= years
       THEN /\ pc' = "simulate_progression"
            /\ months' = (year + 1) * MONTHS_PER_YEAR
       ELSE /\ pc' = "done"
            /\ UNCHANGED months
    /\ UNCHANGED shared_vars
    /\ UNCHANGED <<entry, simulation_type, patient_data, treatment_plan, n_simulations,
                   call_locals, years, error>>

\* result[year] = 1.0 - projection.get("Death", 0.0), then the next year or return
NextYear ==
    /\ pc = "returned"
    /\ entry = "predict_survival_curve"
    /\ curve' = Append(curve, ONE - Get(results, "Death", 0))
    /\ year' = year + 1
    /\ IF year + 1 <= years
       THEN /\ pc' = "simulate_progression"
            /\ months' = (year + 1) * MONTHS_PER_YEAR
       ELSE /\ pc' = "done"
            /\ UNCHANGED months
    /\ UNCHANGED shared_vars
    /\ UNCHANGED <<entry, simulation_type, patient_data, treatment_plan, n_simulations,
                   call_locals, years, error>>

\* the call is over: its locals are dropped (and the caller seeds np.random
\* again before the next call)
Finish ==
    /\ pc \in {"done", "raised"}
    /\ pc' = "idle"
    /\ entry' = ""
    /\ simulation_type' = ""
    /\ patient_data' = EmptyDict
    /\ treatment_plan' = <<>>
    /\ months' = 0
    /\ n_simulations' = 0
    /\ heap' = <<>>
    /\ base_probs' = <<>>
    /\ transition_probs' = <<>>
    /\ results' = <<>>
    /\ trial' = 0
    /\ month' = 0
    /\ current_state' = ""
    /\ years' = 0
    /\ year' = 0
    /\ curve' = <<>>
    /\ error' = ""
    /\ np_random' = 0
    /\ calls' = <<>>
    /\ last_call' = NoCall

Next ==
    \/ \E pd \in PatientRecords, n \in 0..MaxSims, st \in SimulationTypes :
        \E m \in Horizons(pd, st) :
            CallSimulateProgression(pd, m, n, st)
    \/ \E pd \in PatientRecords, plan \in OptionalPlans, model_type \in SimulationTypes :
        \E m \in Horizons(pd, model_type) :
            CallProjectDiseaseProgression(pd, plan, m, model_type)
    \/ \E pd \in RiskProfiles, yrs \in 0..MaxYears, plan \in OptionalPlans :
            CallPredictSurvivalCurve(pd, yrs, plan)
    \/ SimulateMarkov
    \/ SimulateExponential
    \/ SimulateUnknownType
    \/ AdjustRisk
    \/ AdjustTreatment
    \/ StartTrial
    \/ SampleMonth
    \/ RecordFinalState
    \/ ConvertToProbabilities
    \/ ReturnResults
    \/ NextYear
    \/ Finish

Spec == Init /\ [][Next]_vars

(***************************************************************************)
(* The two adjustment functions on their own: a row-stochastic matrix is   *)
(* handed to _adjust_transition_probabilities and / or                     *)
(* _adjust_for_treatment, as _simulate_markov chains them.                 *)
(***************************************************************************)
NEDRows ==
    {base_transition_probs["NED"], MkRow(ONE, 0, 0, 0, 0), MkRow(500000, 500000, 0, 0, 0)}
LocalRows ==
    {base_transition_probs["Local Recurrence"], MkRow(800000, 100000, 100000, 0, 0),
     MkRow(700000, 300000, 0, 0, 0), MkRow(ONE, 0, 0, 0, 0), MkRow(100000, 900000, 0, 0, 0)}
RegionalRows == {base_transition_probs["Regional Recurrence"], MkRow(0, 0, ONE, 0, 0)}
DistantRows ==
    {base_transition_probs["Distant Metastasis"], MkRow(0, 0, 0, 500000, 500000)}

InputMatrices ==
    {[s \in StateSet |->
        CASE s = "NED" -> a
          [] s = "Local Recurrence" -> b
          [] s = "Regional Recurrence" -> c
          [] s = "Distant Metastasis" -> d
          [] OTHER -> base_transition_probs["Death"]] :
        a \in NEDRows, b \in LocalRows, c \in RegionalRows, d \in DistantRows}

\* every row non-negative and summing to 1 up to rounding
IsRowStochastic(m) ==
    \A s \in StateSet :
        /\ \A t \in StateSet : m[s][t] >= 0
        /\ Abs(RowSum(m[s]) - ONE) <= DRIFT_TOL

Cur == Deref(heap, transition_probs)

InitAdjust ==
    /\ pc = "matrix"
    /\ entry = ""
    /\ simulation_type = ""
    /\ patient_data = EmptyDict
    /\ treatment_plan = <<>>
    /\ months = 0
    /\ n_simulations = 0
    /\ \E m \in InputMatrices :
        /\ heap = AllocHeap(<<>>, m)
        /\ last_call = [NoCall EXCEPT !.origin = m]
    /\ base_probs = <<>>
    /\ transition_probs = AllocRef(<<>>)
    /\ results = <<>>
    /\ trial = 0
    /\ month = 0
    /\ current_state = ""
    /\ years = 0
    /\ year = 0
    /\ curve = <<>>
    /\ error = ""
    /\ np_random = 0
    /\ calls = <<>>

\* self._adjust_transition_probabilities(matrix, molecular_subtype, grade, nodes_positive)
ApplyRiskAdjustment(molecular_subtype, grade, nodes_positive) ==
    /\ pc = "matrix"
    /\ last_call.chain = <<>>
    /\ IsRowStochastic(Cur)
    /\ LET r == adjust_transition_probabilities(heap, transition_probs, molecular_subtype,
                                                grade, nodes_positive)
       IN  /\ heap' = r.heap
           /\ base_probs' = transition_probs
           /\ transition_probs' = r.ref
           /\ last_call' =
                [fn |-> "risk", arg |-> Cur, treatment_type |-> "",
                 molecular_subtype |-> molecular_subtype, grade |-> grade,
                 nodes_positive |-> nodes_positive, efficacy |-> 0,
                 chain |-> Append(last_call.chain, "risk"), origin |-> last_call.origin]
    /\ UNCHANGED shared_vars
    /\ UNCHANGED <<pc, call_args, results, trial, month, current_state, curve_vars, error>>

\* self._adjust_for_treatment(matrix, treatment_plan, molecular_subtype); after a
\* risk adjustment the subtype is the one given there, as in _simulate_markov
ApplyTreatmentAdjustment(plan, molecular_subtype) ==
    /\ pc = "matrix"
    /\ ~InSeq("treatment", last_call.chain)
    /\ last_call.fn = "risk" => molecular_subtype = last_call.molecular_subtype
    /\ IsRowStochastic(Cur)
    /\ LET treatment_type == Get(plan, "treatment_type", "unknown")
           r == adjust_for_treatment(heap, transition_probs, plan, molecular_subtype)
       IN  /\ heap' = r.heap
           /\ base_probs' = transition_probs
           /\ transition_probs' = r.ref
           /\ last_call' =
                [fn |-> "treatment", arg |-> Cur, treatment_type |-> treatment_type,
                 molecular_subtype |-> molecular_subtype, grade |-> 0,
                 nodes_positive |-> 0,
                 efficacy |-> efficacy(treatment_type, molecular_subtype),
                 chain |-> Append(last_call.chain, "treatment"),
                 origin |-> last_call.origin]
    /\ UNCHANGED shared_vars
    /\ UNCHANGED <<pc, call_args, results, trial, month, current_state, curve_vars, error>>

NextAdjust ==
    \/ \E molecular_subtype \in Subtypes, grade \in Grades, nodes_positive \in 0..MaxNodes :
            ApplyRiskAdjustment(molecular_subtype, grade, nodes_positive)
    \/ \E plan \in TreatmentPlans, molecular_subtype \in Subtypes :
            ApplyTreatmentAdjustment(plan, molecular_subtype)

SpecAdjust == InitAdjust /\ [][NextAdjust]_vars

(***************************************************************************)
(* Concurrent calls of simulate_progression in markov mode.  The threads   *)
(* share the heap of the process and np.random; the locals of each call    *)
(* are its own (calls[c]).                                                 *)
(***************************************************************************)
CallIds == {"call_1", "call_2"}

\* two different patients, one of them with a treatment plan
ConcurrentPatients ==
    {[grade |-> 1],
     [molecular_subtype |-> "Triple Negative", grade |-> 3, nodes_positive |-> MaxNodes,
      treatment_plan |-> [treatment_type |-> "chemotherapy"]]}

NotCalled ==
    [pc |-> "idle", patient_data |-> EmptyDict, months |-> 0, n_simulations |-> 0,
     base_probs |-> <<>>, transition_probs |-> <<>>, results |-> <<>>, trial |-> 0,
     month |-> 0, current_state |-> "", draws |-> 0]

sequential_vars ==
    <<pc, call_args, base_probs, transition_probs, results, trial, month, current_state,
      curve_vars, error, last_call>>

InitConcurrent ==
    /\ pc = "threads"
    /\ entry = ""
    /\ simulation_type = "markov"
    /\ patient_data = EmptyDict
    /\ treatment_plan = <<>>
    /\ months = 0
    /\ n_simulations = 0
    /\ heap = <<>>
    /\ base_probs = <<>>
    /\ transition_probs = <<>>
    /\ results = <<>>
    /\ trial = 0
    /\ month = 0
    /\ current_state = ""
    /\ years = 0
    /\ year = 0
    /\ curve = <<>>
    /\ error = ""
    /\ np_random = 0
    /\ calls = [c \in CallIds |-> NotCalled]
    /\ last_call = NoCall

\* the locals of call c after a step
SetCall(c, locals) == calls' = [calls EXCEPT ![c] = locals]

\* simulate_progression(pd, m, n) entered by thread c, down to the base literal
ThreadCall(c, pd, m, n) ==
    /\ calls[c].pc = "idle"
    /\ heap' = AllocHeap(heap, base_transition_probs)
    /\ SetCall(c, [calls[c] EXCEPT !.pc = "adjust_risk", !.patient_data = pd,
                                   !.months = m, !.n_simulations = n,
                                   !.base_probs = AllocRef(heap)])
    /\ UNCHANGED <<sequential_vars, np_random>>

\* the risk-adjusted matrix taken from another running call instead of built
ThreadAdjustRiskShared(c) ==
    /\ calls[c].pc = "adjust_risk"
    /\ LET others == {d \in CallIds \ {c} : calls[d].transition_probs # <<>>}
           pd == calls[c].patient_data
           r == adjust_transition_probabilities(
                    heap, calls[c].base_probs, Get(pd, "molecular_subtype", "unknown"),
                    Get(pd, "grade", 2), Get(pd, "nodes_positive", 0))
           next_pc == IF "treatment_plan" \in DOMAIN pd THEN "adjust_treatment" ELSE "rollout"
       IN  IF others # {}
           THEN /\ UNCHANGED heap
                /\ SetCall(c, [calls[c] EXCEPT
                        !.pc = next_pc,
                        !.transition_probs = calls[CHOOSE d \in others : TRUE].transition_probs,
                        !.results = [s \in StateSet |-> 0]])
           ELSE /\ heap' = r.heap
                /\ SetCall(c, [calls[c] EXCEPT !.pc = next_pc, !.transition_probs = r.ref,
                                               !.results = [s \in StateSet |-> 0]])
    /\ UNCHANGED <<sequential_vars, np_random>>

\* transition_probs = self._adjust_transition_probabilities(base_transition_probs, ...)
ThreadAdjustRisk(c) ==
    /\ calls[c].pc = "adjust_risk"
    /\ LET pd == calls[c].patient_data
           r == adjust_transition_probabilities(
                    heap, calls[c].base_probs, Get(pd, "molecular_subtype", "unknown"),
                    Get(pd, "grade", 2), Get(pd, "nodes_positive", 0))
           next_pc == IF "treatment_plan" \in DOMAIN pd THEN "adjust_treatment" ELSE "rollout"
       IN  /\ heap' = r.heap
           /\ SetCall(c, [calls[c] EXCEPT !.pc = next_pc, !.transition_probs = r.ref,
                                          !.results = [s \in StateSet |-> 0]])
    /\ UNCHANGED <<sequential_vars, np_random>>

\* transition_probs = self._adjust_for_treatment(transition_probs, plan, subtype)
ThreadAdjustTreatment(c) ==
    /\ calls[c].pc = "adjust_treatment"
    /\ LET pd == calls[c].patient_data
           r == adjust_for_treatment(heap, calls[c].transition_probs, pd["treatment_plan"],
                                     Get(pd, "molecular_subtype", "unknown"))
       IN  /\ heap' = r.heap
           /\ SetCall(c, [calls[c] EXCEPT !.pc = "rollout", !.transition_probs = r.ref])
    /\ UNCHANGED <<sequential_vars, np_random>>

\* for _ in range(n_simulations): current_state = "NED"
ThreadStartTrial(c) ==
    /\ calls[c].pc = "rollout"
    /\ calls[c].trial < calls[c].n_simulations
    /\ SetCall(c, [calls[c] EXCEPT !.pc = "month", !.current_state = "NED", !.month = 0])
    /\ UNCHANGED <<sequential_vars, heap, np_random>>

\* next_state = np.random.choice(...): the draw takes the next variate of the
\* process-global generator
ThreadSampleMonth(c) ==
    /\ calls[c].pc = "month"
    /\ calls[c].month < calls[c].months
    /\ \E next_state \in RandomChoice(heap[calls[c].transition_probs[calls[c].current_state]]) :
            SetCall(c, [calls[c] EXCEPT !.current_state = next_state, !.month = @ + 1,
                                       !.draws = @ + 1])
    /\ np_random' = np_random + 1
    /\ UNCHANGED <<sequential_vars, heap>>

\* results[current_state] += 1
ThreadRecordFinalState(c) ==
    /\ calls[c].pc = "month"
    /\ calls[c].month = calls[c].months
    /\ SetCall(c, [calls[c] EXCEPT !.pc = "rollout", !.trial = @ + 1,
                                   !.results[calls[c].current_state] = @ + 1])
    /\ UNCHANGED <<sequential_vars, heap, np_random>>

\* results[state] / n_simulations; return results: the matrices of the call
\* are no longer referenced
ThreadReturn(c) ==
    /\ calls[c].pc = "rollout"
    /\ calls[c].trial >= calls[c].n_simulations
    /\ SetCall(c, [calls[c] EXCEPT
            !.pc = "done", !.base_probs = <<>>, !.transition_probs = <<>>,
            !.results = [s \in StateSet |->
                            FDiv(@[s] * ONE, calls[c].n_simulations * ONE)]])
    /\ UNCHANGED <<sequential_vars, heap, np_random>>

NextConcurrent ==
    \E c \in CallIds :
        \/ \E pd \in ConcurrentPatients : ThreadCall(c, pd, MaxMonths, 1)
        \/ ThreadAdjustRisk(c)
        \/ ThreadAdjustTreatment(c)
        \/ ThreadStartTrial(c)
        \/ ThreadSampleMonth(c)
        \/ ThreadRecordFinalState(c)
        \/ ThreadReturn(c)

SpecConcurrent == InitConcurrent /\ [][NextConcurrent]_vars

(***************************************************************************)
(* Properties                                                              *)
(***************************************************************************)
\* the tolerance 1e-9 of the row-sum property: ten times the 1e-10 of the
\* renormalisation test
ROW_TOL == 10 * DRIFT_TOL

\* the matrices _simulate_markov can build: the base literal, risk-adjusted,
\* and then treatment-adjusted
Producible ==
    /\ pc = "matrix"
    /\ last_call.origin = base_transition_probs
    /\ last_call.chain \in {<<>>, <<"risk">>, <<"risk", "treatment">>}

AfterTreatment(treatment_type) ==
    /\ pc = "matrix"
    /\ last_call.fn = "treatment"
    /\ last_call.treatment_type = treatment_type

\* C1: in the base matrix and in every matrix obtained from it by risk
\* adjustment, optionally followed by treatment adjustment, for every patient
\* and treatment type, every row sums to 1 within the tolerance and every
\* entry is >= 0.
C1_RowStochastic ==
    Producible =>
        \A s \in StateSet :
            /\ \A t \in StateSet : Cur[s][t] >= 0
            /\ Abs(RowSum(Cur[s]) - ONE) <= ROW_TOL

\* a chemotherapy adjustment of a risk-adjusted base matrix whose rows had to
\* be renormalised
C1_Witness ==
    /\ Producible
    /\ last_call.chain = <<"risk", "treatment">>
    /\ last_call.treatment_type = "chemotherapy"
    /\ Cur["NED"]["NED"] < last_call.arg["NED"]["NED"]

\* C2: in every matrix the simulator can produce the Death row is exactly
\* Death -> Death = 1.0 and 0.0 to each of the other four states.
C2_DeathRowIdentity ==
    Producible => Cur["Death"] = MkRow(0, 0, 0, 0, ONE)

\* a risk- and treatment-adjusted matrix whose other rows were all edited
C2_Witness ==
    /\ Producible
    /\ last_call.chain = <<"risk", "treatment">>
    /\ \A s \in StateSet \ {"Death"} : Cur[s] # base_transition_probs[s]
    /\ Cur["Death"] = MkRow(0, 0, 0, 0, ONE)

\* C3: once the current state of a trial is Death it is Death after every
\* later draw of that trial, and the trial is counted under Death.
C3_DeathAbsorbing ==
    [][(pc = "month" /\ current_state = "Death") =>
            /\ pc' = "month" => current_state' = "Death"
            /\ pc' = "rollout" => results'["Death"] = results["Death"] + 1]_vars

\* a trial that is in Death with a month still to draw
C3_Witness ==
    /\ pc = "month"
    /\ current_state = "Death"
    /\ month >= 1
    /\ month < months

\* C4: a Markov call with n_simulations > 0 holds one count per finished trial
\* over exactly the five states, and returns for each state its count divided
\* by n_simulations: a value in [0,1], 0 for a state no trial ended in, the
\* five summing to 1 up to rounding.
C4_Occupancy ==
    /\ [](pc \in {"rollout", "month"} =>
            /\ DOMAIN results = StateSet
            /\ RowSum(results) = trial
            /\ trial <= n_simulations)
    /\ [][(pc = "rollout" /\ pc' = "returned") =>
            /\ n_simulations > 0
            /\ RowSum(results) = n_simulations
            /\ DOMAIN results' = StateSet
            /\ \A s \in StateSet :
                /\ results'[s] = FDiv(results[s] * ONE, n_simulations * ONE)
                /\ results'[s] >= 0
                /\ results'[s] <= ONE
                /\ results[s] = 0 => results'[s] = 0
            /\ Abs(RowSum(results') - ONE) <= DRIFT_TOL]_vars

\* a returned mapping with a state no trial ended in and two states that
\* share the trials
C4_Witness ==
    /\ pc = "returned"
    /\ n_simulations >= 2
    /\ results["Regional Recurrence"] = 0
    /\ results["NED"] > 0
    /\ results["Death"] > 0

\* C5: after the chemotherapy adjustment (renormalisation included) every
\* state's self-transition probability is >= its value in the input matrix.
C5_ChemotherapyNonDecrease ==
    AfterTreatment("chemotherapy") =>
        \A s \in StateSet : Cur[s][s] >= last_call.arg[s][s]

\* C6 as claimed: surgery applied to any row-stochastic matrix leaves
\* P[NED][NED] and P[Local][NED] >= their pre-edit values.
C6_SurgeryDirectionAnyMatrix ==
    AfterTreatment("surgery") =>
        /\ Cur["NED"]["NED"] >= last_call.arg["NED"]["NED"]
        /\ Cur["Local Recurrence"]["NED"] >= last_call.arg["Local Recurrence"]["NED"]

\* C6 amended: surgery applied to a row-stochastic matrix whose P[Local][NED]
\* is at most 0.7 leaves P[NED][NED] and P[Local][NED] >= their pre-edit values.
C6_SurgeryDirection ==
    (AfterTreatment("surgery") /\ last_call.arg["Local Recurrence"]["NED"] <= 700000) =>
        /\ Cur["NED"]["NED"] >= last_call.arg["NED"]["NED"]
        /\ Cur["Local Recurrence"]["NED"] >= last_call.arg["Local Recurrence"]["NED"]

\* surgery that raised both entries
C6_Witness ==
    /\ AfterTreatment("surgery")
    /\ last_call.arg["Local Recurrence"]["NED"] <= 700000
    /\ Cur["NED"]["NED"] > last_call.arg["NED"]["NED"]
    /\ Cur["Local Recurrence"]["NED"] > last_call.arg["Local Recurrence"]["NED"]

RiskAdjustedBase(molecular_subtype, grade, nodes_positive) ==
    LET h == AllocHeap(<<>>, base_transition_probs)
        r == adjust_transition_probabilities(h, AllocRef(<<>>), molecular_subtype, grade,
                                             nodes_positive)
    IN  Deref(r.heap, r.ref)

\* C7: for patient A (the one adjusted for) and any patient B whose
\* risk_modifier is at least A's, the risk-adjusted base matrix of B has
\* P[NED][NED] <= that of A.
C7_RiskMonotone ==
    (Producible /\ last_call.chain = <<"risk">>) =>
        \A st \in Subtypes, g \in Grades, n \in 0..MaxNodes :
            risk_modifier(last_call.molecular_subtype, last_call.grade,
                          last_call.nodes_positive) <= risk_modifier(st, g, n)
            => RiskAdjustedBase(st, g, n)["NED"]["NED"] <= Cur["NED"]["NED"]

\* a patient whose P[NED][NED] is strictly above that of a higher-risk patient
C7_Witness ==
    /\ Producible
    /\ last_call.chain = <<"risk">>
    /\ last_call.grade = 1
    /\ RiskAdjustedBase(last_call.molecular_subtype, 3, last_call.nodes_positive)["NED"]["NED"]
            < Cur["NED"]["NED"]

\* the plan supplied to the running call: the treatment_plan argument if one
\* was passed, else the plan carried in the patient record
PlanSupplied == treatment_plan # <<>> \/ "treatment_plan" \in DOMAIN patient_data
SuppliedPlan ==
    IF treatment_plan # <<>> THEN treatment_plan[1] ELSE patient_data["treatment_plan"]

RiskThenTreatment(pd, plan) ==
    LET h == AllocHeap(<<>>, base_transition_probs)
        molecular_subtype == Get(pd, "molecular_subtype", "unknown")
        r == adjust_transition_probabilities(h, AllocRef(<<>>), molecular_subtype,
                                             Get(pd, "grade", 2), Get(pd, "nodes_positive", 0))
        t == adjust_for_treatment(r.heap, r.ref, plan, molecular_subtype)
    IN  Deref(t.heap, t.ref)

\* C8: whenever a plan is supplied to a progression call, as an argument of
\* project_disease_progression or predict_survival_curve or in the patient
\* record, the rollout samples from the base matrix risk-adjusted and then
\* treatment-adjusted with that plan.
C8_PlanApplied ==
    (pc \in {"rollout", "month"} /\ PlanSupplied) =>
        Cur = RiskThenTreatment(patient_data, SuppliedPlan)

\* C9: for a treatment_type that is none of the five known ones, the default
\* "unknown" of a plan without the field included, treatment adjustment
\* raises nothing and returns a matrix equal entry for entry to its input.
C9_UnknownTreatmentIdentity ==
    (pc = "matrix" /\ last_call.fn = "treatment"
        /\ last_call.treatment_type \notin KnownTreatmentTypes) =>
        /\ Cur = last_call.arg
        /\ error = ""

\* a plan without treatment_type applied to a matrix other than the base one
C9_Witness ==
    /\ AfterTreatment("unknown")
    /\ last_call.arg # base_transition_probs
    /\ Cur = last_call.arg

\* C10: after either adjustment returns, the matrix passed to it holds its
\* pre-call values and shares no row with the result.
C10_InputNotMutated ==
    (pc = "matrix" /\ last_call.fn # "none") =>
        /\ Deref(heap, base_probs) = last_call.arg
        /\ Addresses(base_probs) \cap Addresses(transition_probs) = {}

\* both adjustments have run, each returning a matrix that differs from its
\* input, and the base literal is intact
C10_Witness ==
    /\ Producible
    /\ last_call.chain = <<"risk", "treatment">>
    /\ Cur # last_call.arg
    /\ last_call.arg # base_transition_probs
    /\ Deref(heap, AllocRef(<<>>)) = base_transition_probs
    /\ Deref(heap, base_probs) = last_call.arg

\* a call with an unrecognised mode, and such a call past the dispatch of
\* simulate_progression
UnknownMode == simulation_type \notin {"", "markov", "exponential"}
UnknownModePastDispatch == UnknownMode /\ pc \notin {"idle", "simulate_progression"}

C12_MissingFieldsNeverRaise ==
    (simulation_type \in {"markov", "exponential"} /\ months > 0 /\ n_simulations > 0) =>
        (pc # "raised" /\ error = "")

\* C13: in exponential mode, for every patient record and every months > 0,
\* the result has exactly the five state keys and each value lies in [0,1].
C13_ExponentialInUnitInterval ==
    (pc = "returned" /\ simulation_type = "exponential" /\ months > 0) =>
        /\ DOMAIN results = StateSet
        /\ \A s \in StateSet : results[s] >= 0 /\ results[s] <= ONE

\* the matrix and the rows call c can reach through its locals
CallMatrix(c) == Deref(heap, calls[c].transition_probs)
CallRows(c) ==
    (IF calls[c].base_probs = <<>> THEN {} ELSE Addresses(calls[c].base_probs))
    \cup (IF calls[c].transition_probs = <<>> THEN {} ELSE Addresses(calls[c].transition_probs))

\* the matrix a call for patient pd builds when it runs alone
MatrixAlone(pd) ==
    IF "treatment_plan" \in DOMAIN pd
    THEN RiskThenTreatment(pd, pd["treatment_plan"])
    ELSE RiskAdjustedBase(Get(pd, "molecular_subtype", "unknown"), Get(pd, "grade", 2),
                          Get(pd, "nodes_positive", 0))

\* call c has its matrix and has drawn nothing yet; call c is in its rollout
MatrixBuilt(c) == calls[c].pc = "rollout" /\ calls[c].trial = 0
Sampling(c) == calls[c].pc \in {"rollout", "month"}

\* C14: every random draw of a rollout comes from a seedable generator owned
\* by or passed into that call, never from process-global state: the
\* generator a call draws from has handed out exactly the variates of that
\* call, so its k-th draw is the k-th variate after the seed, also when other
\* calls run interleaved.
C14_OwnGenerator ==
    \A c \in CallIds : calls[c].pc \in {"rollout", "month"} => np_random = calls[c].draws

\* C15: for any interleaving of calls, the matrix each call samples from
\* equals the matrix that call builds when run alone (it does when the call
\* has built it, and no step of any call changes it as long as the call
\* samples); no row of one call is reachable from another call, and none is
\* kept once the call has returned.
C15_CallsSelfContained ==
    /\ [](\A c \in CallIds :
            /\ MatrixBuilt(c) => CallMatrix(c) = MatrixAlone(calls[c].patient_data)
            /\ \A d \in CallIds \ {c} : CallRows(c) \cap CallRows(d) = {}
            /\ calls[c].pc \in {"idle", "done"} => CallRows(c) = {})
    /\ [][\A c \in CallIds :
            (Sampling(c) /\ calls[c].transition_probs # <<>>) =>
                Deref(heap', calls[c].transition_probs) = CallMatrix(c)]_vars

\* both calls are sampling, for different patients, each from its own matrix
C15_Witness ==
    /\ calls["call_1"].pc = "month" /\ calls["call_1"].month = 1
    /\ calls["call_2"].pc = "month" /\ calls["call_2"].month = 1
    /\ calls["call_1"].patient_data # calls["call_2"].patient_data
    /\ CallMatrix("call_1") # CallMatrix("call_2")

\* C16: in a Markov rollout every trial starts in NED, makes exactly `months`
\* sampled transitions, one draw each, during which no count changes, and
\* then adds exactly one count, to the state reached after the last
\* transition; a trial with months = 0 is counted under NED.
C16_TrialShape ==
    /\ [](pc = "month" =>
            /\ month <= months
            /\ month = 0 => current_state = "NED")
    /\ [][(pc = "rollout" /\ pc' = "month") =>
            /\ current_state' = "NED"
            /\ month' = 0
            /\ UNCHANGED <<results, trial, np_random>>]_vars
    /\ [][(pc = "month" /\ pc' = "month") =>
            /\ month < months
            /\ month' = month + 1
            /\ np_random' = np_random + 1
            /\ UNCHANGED <<results, trial>>]_vars
    /\ [][(pc = "month" /\ pc' # "month") =>
            /\ pc' = "rollout"
            /\ month = months
            /\ trial' = trial + 1
            /\ results' = [results EXCEPT ![current_state] = @ + 1]
            /\ months = 0 => results'["NED"] = results["NED"] + 1
            /\ UNCHANGED np_random]_vars

\* the first trial of a two-month call made its two draws and was counted
\* once, under Local Recurrence
C16_Witness ==
    /\ pc = "rollout"
    /\ trial = 1
    /\ months = 2
    /\ np_random = 2
    /\ results = [ZeroCounts EXCEPT !["Local Recurrence"] = 1]
    /\ entry = "simulate_progression"

\* C17: the transition matrix is not modified between the first and the last
\* sampled step of a call, and at every step the possible next states are
\* exactly {t : matrix[current][t] > 0}, whatever the month index, the trial
\* index or the earlier states of the trajectory.
C17_Memoryless ==
    /\ [](pc = "month" /\ month < months =>
            \A t \in StateSet :
                Cur[current_state][t] > 0 <=>
                    ENABLED (SampleMonth /\ current_state' = t))
    /\ [][(pc \in {"rollout", "month"} /\ pc' \in {"rollout", "month"}) =>
            Deref(heap', transition_probs') = Cur]_vars

\* the second trial of a call has reached Local Recurrence and has a month
\* still to draw
C17_Witness ==
    /\ pc = "month"
    /\ trial = 1
    /\ month = 1
    /\ month < months
    /\ current_state = "Local Recurrence"

\* a risk adjustment has just returned; the modifier it computed
AfterRisk == pc = "matrix" /\ last_call.fn = "risk"
LastRiskModifier ==
    risk_modifier(last_call.molecular_subtype, last_call.grade, last_call.nodes_positive)

\* stay - newStay for the row of state s of the matrix that was adjusted
FreedOf(s) ==
    last_call.arg[s][s] - new_stay_prob(last_call.arg[s][s], s, LastRiskModifier)

\* what the entry for t of the row of s gained in the adjustment
Received(s, t) == Cur[s][t] - last_call.arg[s][t]

WorseSet(s) == {worse_states(s)[i] : i \in 1..Len(worse_states(s))}
WorseSum(s) == SumSeq([i \in 1..Len(worse_states(s)) |-> last_call.arg[s][worse_states(s)[i]]])

\* C18: in risk adjustment, for every row-stochastic input matrix, every
\* non-Death state s and every patient, the mass freed from the
\* self-transition (stay - newStay) is >= 0, so no worse-state entry of any
\* row is lowered.
C18_FreedNonNegative ==
    AfterRisk =>
        \A s \in StateSet \ {"Death"} :
            /\ FreedOf(s) >= 0
            /\ \A t \in WorseSet(s) : Received(s, t) >= 0

\* C19: in risk adjustment, when the worse states of a non-Death row all hold
\* probability 0, the freed mass (stay - newStay, clamped at 0) goes to them
\* in equal shares freed/|worse|; when their sum is > 0, each worse state
\* receives freed times its share of that sum.
C19_FreedDistribution ==
    AfterRisk =>
        \A s \in StateSet \ {"Death"} : \A t \in WorseSet(s) :
            LET freed == Max(0, FreedOf(s))
                share == IF WorseSum(s) > 0
                         THEN FMul(freed, FDiv(last_call.arg[s][t], WorseSum(s)))
                         ELSE FDiv(freed, Len(worse_states(s)) * ONE)
            IN  Abs(Received(s, t) - share) <= ROW_TOL

\* the matrix _adjust_for_treatment returns for matrix m
TreatedMatrix(m, plan, molecular_subtype) ==
    LET h == AllocHeap(<<>>, m)
        r == adjust_for_treatment(h, AllocRef(<<>>), plan, molecular_subtype)
    IN  Deref(r.heap, r.ref)

\* C20: for a fixed input matrix and a fixed treatment_type, the matrix
\* returned by treatment adjustment is the same for every molecular_subtype:
\* neither the subtype nor the efficacy computed from it reaches an entry.
C20_SubtypeIndependent ==
    (pc = "matrix" /\ last_call.fn = "treatment") =>
        \A molecular_subtype \in Subtypes \ {last_call.molecular_subtype} :
            TreatedMatrix(last_call.arg, [treatment_type |-> last_call.treatment_type],
                          molecular_subtype) = Cur

\* a chemotherapy adjustment for a subtype with an efficacy of its own, which
\* changed the matrix
C20_Witness ==
    /\ AfterTreatment("chemotherapy")
    /\ last_call.molecular_subtype = "Triple Negative"
    /\ last_call.efficacy # efficacy("chemotherapy", "Luminal A")
    /\ Cur # last_call.arg

\* the entries of row `new` over the columns cols are in the ratios they have
\* in row `old` (cross products agree up to rounding)
SameRatios(new, old, cols) ==
    \A t \in cols, u \in cols :
        Abs(FMul(new[t], old[u]) - FMul(new[u], old[t])) <= DRIFT_TOL

SumOver(row, cols) == SumSeq([i \in 1..Len(states) |-> IF states[i] \in cols THEN row[states[i]] ELSE 0])

ArgRow(s) == last_call.arg[s]

\* C21: after the surgery adjustment of a row-stochastic matrix whose Local
\* row has positive mass outside the NED column, the returned Local row has
\* P[Local][NED] = 0.7 and its other four entries sum to 0.3 in the pairwise
\* ratios they had before.
C21_SurgeryLocalRow ==
    (AfterTreatment("surgery")
        /\ SumExcept(ArgRow("Local Recurrence"), "NED") > 0) =>
        LET row == Cur["Local Recurrence"]
        IN  /\ row["NED"] = 700000
            /\ Abs(SumExcept(row, "NED") - 300000) <= DRIFT_TOL
            /\ SameRatios(row, ArgRow("Local Recurrence"), StateSet \ {"NED"})

\* surgery on a Local row that held 0.1 / 0.9 and nothing elsewhere
C21_Witness ==
    /\ AfterTreatment("surgery")
    /\ ArgRow("Local Recurrence") = MkRow(100000, 900000, 0, 0, 0)
    /\ Cur["Local Recurrence"] = MkRow(700000, 300000, 0, 0, 0)

\* the share of P[NED][Local] that surgery / radiation moves
MovedShare(treatment_type) == IF treatment_type = "surgery" THEN 900000 ELSE 850000

\* C22: the surgery (radiation) adjustment lowers P[NED][Local] to 10% (15%)
\* of its value, raises P[NED][NED] by exactly the amount removed, and leaves
\* unchanged the other three entries of the NED row and every entry of the
\* Regional Recurrence, Distant Metastasis and Death rows.
C22_LocalControlFrame ==
    (pc = "matrix" /\ last_call.fn = "treatment"
        /\ last_call.treatment_type \in {"surgery", "radiation"}) =>
        LET old == ArgRow("NED")
            new == Cur["NED"]
            moved == FMul(old["Local Recurrence"], MovedShare(last_call.treatment_type))
        IN  /\ new["Local Recurrence"] = old["Local Recurrence"] - moved
            /\ new["NED"] = old["NED"] + moved
            /\ \A t \in {"Regional Recurrence", "Distant Metastasis", "Death"} :
                    new[t] = old[t]
            /\ \A s \in {"Regional Recurrence", "Distant Metastasis", "Death"} :
                    Cur[s] = ArgRow(s)

\* radiation after a risk adjustment that changed the NED row, moving mass
\* from P[NED][Local] to P[NED][NED]
C22_Witness ==
    /\ AfterTreatment("radiation")
    /\ last_call.chain = <<"risk", "treatment">>
    /\ last_call.origin = base_transition_probs
    /\ ArgRow("NED") # base_transition_probs["NED"]
    /\ Cur["NED"]["Local Recurrence"] < ArgRow("NED")["Local Recurrence"]
    /\ Cur["NED"]["NED"] > ArgRow("NED")["NED"]

\* C23: under the radiation adjustment, if the input P[Local][NED] is < 0.15
\* the returned Local row has P[Local][NED] = 0.15 and its other entries sum
\* to 0.85 in their former ratios; if it is >= 0.15 the Local row is
\* returned unchanged.
C23_RadiationLocalRow ==
    AfterTreatment("radiation") =>
        LET old == ArgRow("Local Recurrence")
            new == Cur["Local Recurrence"]
        IN  IF old["NED"] < 150000
            THEN /\ new["NED"] = 150000
                 /\ Abs(SumExcept(new, "NED") - 850000) <= DRIFT_TOL
                 /\ SameRatios(new, old, StateSet \ {"NED"})
            ELSE new = old

\* radiation on a Local row whose P[Local][NED] was 0.8: nothing to raise
C23_Witness ==
    /\ AfterTreatment("radiation")
    /\ ArgRow("Local Recurrence")["NED"] = 800000
    /\ Cur["Local Recurrence"] = ArgRow("Local Recurrence")

\* min(0.03, (1 - P[s][s]) * 0.2) for the row of s of the matrix adjusted
HormoneIncrease(s) == Min(30000, FMul(ONE - ArgRow(s)[s], 200000))

\* C24: for treatment_type hormone_therapy or targeted_therapy and every
\* non-Death state s, the returned matrix has P[s][s] equal to the input
\* P[s][s] plus min(0.03, (1 - P[s][s]) * 0.2), the other entries of the row
\* keep their pairwise ratios, and the two treatment types yield the same
\* matrix from the same input.
C24_HormoneTargetedStay ==
    (pc = "matrix" /\ last_call.fn = "treatment"
        /\ last_call.treatment_type \in {"hormone_therapy", "targeted_therapy"}) =>
        /\ \A s \in StateSet \ {"Death"} :
            /\ Abs(Cur[s][s] - (ArgRow(s)[s] + HormoneIncrease(s))) <= ROW_TOL
            /\ SameRatios(Cur[s], ArgRow(s), StateSet \ {s})
        /\ \A treatment_type \in {"hormone_therapy", "targeted_therapy"} :
                TreatedMatrix(last_call.arg, [treatment_type |-> treatment_type],
                              last_call.molecular_subtype) = Cur

\* predict_survival_curve is running; it has returned its curve
InCurve == entry = "predict_survival_curve"
CurveReturned == InCurve /\ pc = "done"

C30_CurveNonIncreasing ==
    CurveReturned =>
        \A y1 \in 1..Len(curve), y2 \in 1..Len(curve) : y1 < y2 => curve[y1] >= curve[y2]

\* the states before / after s in the severity order of `states`
Better(s) == {t \in StateSet : Idx(t) < Idx(s)}
Worse(s) == {t \in StateSet : Idx(t) > Idx(s)}

\* row s of the risk-adjusted matrix: the better entries are as they were and
\* what the stay entry lost is what the worse entries gained
MassMovedToWorse(s) ==
    /\ \A t \in Better(s) : Cur[s][t] = ArgRow(s)[t]
    /\ Abs((ArgRow(s)[s] - Cur[s][s]) - (SumOver(Cur[s], Worse(s)) - SumOver(ArgRow(s), Worse(s))))
            <= DRIFT_TOL
    /\ Abs(RowSum(Cur[s]) - RowSum(ArgRow(s))) <= DRIFT_TOL

\* C26: risk adjustment conserves row mass and moves it only toward worse
\* states: for every non-Death row s of the input, the entries for states
\* better than s are unchanged and the decrease of P[s][s] equals the total
\* increase over the worse-state entries, so a row that summed to 1 still
\* sums to 1.
C26_MassConservedAnyRow ==
    AfterRisk => \A s \in StateSet \ {"Death"} : MassMovedToWorse(s)

\* C26 for the rows whose stay probability is at least the minimum stay
\* probability of their state: the same, and the stay entry does not rise.
C26_MassConserved ==
    AfterRisk =>
        \A s \in StateSet \ {"Death"} :
            ArgRow(s)[s] >= min_stay_prob(s) =>
                /\ MassMovedToWorse(s)
                /\ Cur[s][s] <= ArgRow(s)[s]
                /\ \A t \in Worse(s) : Cur[s][t] >= ArgRow(s)[t]

\* a risk adjustment that moved mass out of P[NED][NED] = 1.0 into worse
\* states that all held 0, and out of the base Distant Metastasis row
C26_Witness ==
    /\ AfterRisk
    /\ ArgRow("NED") = MkRow(ONE, 0, 0, 0, 0)
    /\ Cur["NED"]["NED"] < ONE
    /\ Cur["NED"]["Death"] > 0
    /\ ArgRow("Distant Metastasis") = base_transition_probs["Distant Metastasis"]
    /\ Cur["Distant Metastasis"]["Death"] > ArgRow("Distant Metastasis")["Death"]

\* a risk adjustment of the base matrix has just returned
AfterRiskOfBase == AfterRisk /\ last_call.arg = base_transition_probs

\* C27: risk adjustment of the base matrix leaves the Local Recurrence row
\* and the Regional Recurrence row entry-for-entry equal to the base rows for
\* every patient; only the NED and Distant Metastasis rows can differ from
\* the base matrix.
C27_LocalRegionalRowsKept ==
    AfterRiskOfBase =>
        \A s \in StateSet \ {"NED", "Distant Metastasis"} : Cur[s] = base_transition_probs[s]

\* a patient for whom the NED row and the Distant Metastasis row did change
C27_Witness ==
    /\ AfterRiskOfBase
    /\ last_call.molecular_subtype = "Triple Negative"
    /\ last_call.grade = 3
    /\ Cur["NED"] # base_transition_probs["NED"]
    /\ Cur["Distant Metastasis"] # base_transition_probs["Distant Metastasis"]

\* C28: for every patient whose risk_modifier is >= 1.0 the risk-adjusted
\* P[NED][NED] equals the floor 0.995 and the risk-adjusted NED rows of all
\* such patients are identical; P[NED][NED] is above 0.995 only for a patient
\* with risk_modifier 0.9 (grade 1, no subtype factor, no positive nodes).
C28_NEDFloor ==
    AfterRiskOfBase =>
        /\ LastRiskModifier >= ONE =>
                /\ Cur["NED"]["NED"] = 995000
                /\ Cur["NED"] = RiskAdjustedBase("unknown", 2, 0)["NED"]
        /\ Cur["NED"]["NED"] >= 995000
        /\ Cur["NED"]["NED"] > 995000 =>
                /\ LastRiskModifier = 900000
                /\ last_call.grade = 1
                /\ SubtypeFactor(last_call.molecular_subtype) = ONE
                /\ NodesFactor(last_call.nodes_positive) = ONE

\* the grade-1 patient without subtype factor or nodes: P[NED][NED] stays
\* above the floor
C28_Witness ==
    /\ AfterRiskOfBase
    /\ LastRiskModifier = 900000
    /\ Cur["NED"]["NED"] > 995000

\* the four values of a patient record that the Markov mode reads, with
\* their defaults
FourValues(pd) ==
    <<Get(pd, "molecular_subtype", "unknown"), Get(pd, "grade", 2),
      Get(pd, "nodes_positive", 0),
      IF "treatment_plan" \in DOMAIN pd
      THEN <<Get(pd["treatment_plan"], "treatment_type", "unknown")>>
      ELSE <<>> >>

\* C29: in Markov mode the transition matrix used for the rollout depends
\* only on molecular_subtype, grade, nodes_positive and the plan's
\* treatment_type: the matrix built for a record equals the matrix built for
\* any record that agrees with it on these four values, whatever their age,
\* tumor_size, er_status, pr_status, her2_status, regimen, duration_months.
C29_FourValuesOnly ==
    (pc = "rollout" /\ trial = 0) =>
        \A pd \in PatientRecords :
            FourValues(pd) = FourValues(patient_data) => MatrixAlone(pd) = Cur

\* the matrix of a record with age, tumor size, receptor status and a plan
\* with regimen and duration, built; another record agrees on the four values
C29_Witness ==
    /\ pc = "rollout"
    /\ trial = 0
    /\ "age" \in DOMAIN patient_data
    /\ "treatment_plan" \in DOMAIN patient_data
    /\ "regimen" \in DOMAIN patient_data["treatment_plan"]
    /\ \E pd \in PatientRecords :
            /\ FourValues(pd) = FourValues(patient_data)
            /\ DOMAIN pd # DOMAIN patient_data

====
